---- MODULE Spec2Model ----
(***************************************************************************)
(* Model of the reel-generation pipeline of essentially-sports-reels:      *)
(* the POST handler of src/app/page.tsx with its three generator stages    *)
(* (Gemini script, Google TTS voiceover, RunwayML video with its polling   *)
(* loop) and the Google Cloud Storage upload helper.  Several requests are *)
(* handled concurrently by one event loop; every `await` of the source is  *)
(* one step of the request that executes it.                               *)
(***************************************************************************)
EXTENDS Integers, Sequences, FiniteSets, TLC

\* ------------------------------------------------------------------ bounds
MaxClock == 1       \* Date.now() ranges over 0..MaxClock
MaxCount == 2       \* the counters of the polling loop saturate here

UnitsPerScreen == 2 \* scroll positions are multiples of 1/UnitsPerScreen screen
Overscroll == 1     \* units by which the view can be dragged past the end

\* Two requests, handled concurrently by the same server process.
Runs == {"A", "B"}

\* ------------------------------------------------------------ input domains
Undefined == "<undefined>"                    \* a JSON field that is missing
SportsValues == {"", Undefined, "cricket"}
PhotoValues == {"", Undefined, "data:image/jpeg;base64"}
\* Contents (texts, byte buffers) are sequences of pieces; <<>> is empty.
Scripts == {<<"Cricket began">>, <<"Football began">>} \* Gemini answers
AudioContent == <<"mp3">>
VideoBodies == {<<>>, <<<<"b1">>, <<"b2", "b3">>>>} \* chunks of the video response
StatusCodes == {200, 206, 404}                \* response.statusCode
Throws == <<"throws">>                        \* the call rejects
NoAudio == <<"undefined">>                    \* response.audioContent is not set
NonTerminal == {"PENDING", "RUNNING"}
OutputURL == "https://cdn/example.mp4"

\* JavaScript truthiness of the values used here: !x
Falsy(x) == x \in {"", Undefined}
\* Variant: nothing counts as empty.
EmptyNever(content) == FALSE

Empty(content) == content = <<>>
\* !x of a byte buffer: a Buffer or Uint8Array is truthy even with length 0,
\* only a value that is not set is falsy
NotSet(bytes) == bytes = NoAudio

\* ------------------------------------------------------------------- state
VARIABLES
  now,        \* Date.now()
  pc,         \* pc[r]: the await at which request r is suspended
  req,        \* req[r]: the parsed body {sports, photo} and whether it parsed
  randomId,   \* POST: randomId
  scriptURL,  \* POST: scriptURL
  voiceoverURL, \* POST: voiceoverURL
  up,         \* arguments of the uploadToGCPStorage call in progress
  text,       \* generateVoiceoverUsingGoogleTTS: text
  task,       \* generateVideoFromRunwayML: task (status, output)
  polled,     \* number of non-terminal statuses observed (saturating)
  calls,      \* calls[r][c]: backend calls of kind c issued by r (saturating)
  failedAt,   \* value of calls[r] when the run caught its error
  store,      \* bucket: set of objects [path, contentType, content, public]
  saved,      \* saved[path]: the payloads written to path, in order of write
  uploaded,   \* uploaded[r]: stages whose uploadToGCPStorage call returned
  response,   \* response[r]: what POST returned to the caller
  abandoned,  \* abandoned[r]: the caller of r has gone away (request.signal)
  hung,       \* hung[r]: the call r is awaiting will never return
  \* the Reels component
  mounted,      \* the component is mounted (containerRef and videoRefs are set)
  currentIndex, \* useState: currentIndex
  closureIndex, \* the currentIndex that the handleScroll in use was created with
  scrollTop,    \* containerRef.current.scrollTop, in units
  playing,      \* indices of the videos that are not paused
  muted,        \* muted[i]: video i is muted
  smooth,       \* a scrollTo({top: 0, behavior: 'smooth'}) is under way
  \* the Create component
  selectedImage, \* useState: selectedImage (null or a file)
  loading,       \* useState: loading
  data,          \* useState: data (the displayed URLs)
  rendered,      \* loading and selectedImage as of the last render
  cpc,           \* cpc[k]: the await at which onhandleGenerate call k is suspended
  result         \* result[k]: what generateVideo resolved with

vars == <<now, pc, req, randomId, scriptURL, voiceoverURL, up, text, task,
          polled, calls, failedAt, store, saved, uploaded, response,
          abandoned, hung, mounted, currentIndex, closureIndex, scrollTop,
          playing, muted, smooth, selectedImage, loading, data, rendered, cpc,
          result>>

pipelineVars == <<now, pc, req, randomId, scriptURL, voiceoverURL, up, text,
                  task, polled, calls, failedAt, store, saved, uploaded,
                  response, abandoned, hung>>
createVars == <<selectedImage, loading, data, rendered, cpc, result>>
reelsVars == <<mounted, currentIndex, closureIndex, scrollTop, playing, muted,
               smooth>>

\* hardcodedReelUrls.length
NumReels == 4
Videos == 0..(NumReels - 1)

CallKinds == {"gemini", "scriptFetch", "tts", "submit", "sleep", "status",
              "outputFetch", "save", "makePublic",
              "saveScript", "saveAudio", "saveVideo"}  \* save, by artifact
NoCalls == [c \in CallKinds |-> 0]
NoResponse == [http |-> 0]
NoUpload == [fileName |-> <<>>, fileType |-> "", content |-> <<>>, stage |-> ""]
NoTask == [status |-> "", output |-> <<>>]
NoReq == [parsed |-> FALSE, sports |-> Undefined, photo |-> Undefined]
NoFailure == [failed |-> FALSE, calls |-> NoCalls]

\* The polling loop has no bound, so what is counted inside it saturates;
\* every other call is counted exactly.
LoopCalls == {"sleep", "status"}
Inc(n) == IF n < MaxCount THEN n + 1 ELSE n
CountIn(cs, r, c) == [cs EXCEPT ![r][c] = IF c \in LoopCalls THEN Inc(@) ELSE @ + 1]
Count(r, c) == CountIn(calls, r, c)
SaveKind(stage) ==
  CASE stage = "script" -> "saveScript"
    [] stage = "audio" -> "saveAudio"
    [] stage = "video" -> "saveVideo"

\* --------------------------------------------------------------- names, URLs
\* Strings are kept as sequences of their pieces, so that "contains the id"
\* can be read off the result of the concatenation.
bucketName == "sehban"

\* `${Date.now()}`
IdOf(t) == ToString(t)

\* Variant: the video name takes a fresh Date.now() instead of randomId.
tempVideoNameFresh(id) == <<"video-", ToString(now), ".mp4">>

\* `script-${randomId}.txt`, `video-${randomId}.mp4`, `audio-${randomId}.mp3`
tempScriptName(id) == <<"script-", id, ".txt">>
tempVideoName(id) == <<"video-", id, ".mp4">>
tempAudioName(id) == <<"audio-", id, ".mp3">>

directory(generatedFileType) == IF generatedFileType = "temp" THEN "temp" ELSE "reel"
filePath(fileName, generatedFileType) == <<directory(generatedFileType), "/">> \o fileName
publicUrl(path) == <<"https://storage.googleapis.com/", bucketName, "/">> \o path

\* Variant: only the chunk that arrived last is kept.
BufferConcatLastOnly(chunks) ==
  IF chunks = <<>> THEN <<>> ELSE chunks[Len(chunks)]

\* Buffer.concat(chunks)
RECURSIVE BufferConcat(_)
BufferConcat(chunks) ==
  IF chunks = <<>> THEN <<>> ELSE Head(chunks) \o BufferConcat(Tail(chunks))

\* `Failed to fetch video. Status code: ${response.statusCode}`
StatusError(statusCode) == "Failed to fetch video. Status code: " \o ToString(statusCode)

\* ---------------------------------------------------------------- responses
\* NextResponse.json({ error: 'issue in params' }, { status: 400 })
ValidationResponse ==
  [http |-> 400, status |-> 0, success |-> FALSE, scriptURL |-> <<>>,
   voiceoverURL |-> <<>>, videoURL |-> <<>>, error |-> "issue in params"]

\* Variant: the catch hands back the URLs the earlier stages had produced.
ErrorResponsePartial(r, error) ==
  [http |-> 200, status |-> 500, success |-> FALSE, scriptURL |-> scriptURL[r],
   voiceoverURL |-> voiceoverURL[r], videoURL |-> <<>>, error |-> error]

\* catch (error): NextResponse.json({ status: 500, data: {}, errors: {error} })
ErrorResponse(r, error) ==
  [http |-> 200, status |-> 500, success |-> FALSE, scriptURL |-> <<>>,
   voiceoverURL |-> <<>>, videoURL |-> <<>>, error |-> error]

\* NextResponse.json({ status: 200, data: { success: true, ...URLs } })
SuccessResponse(r, videoURL) ==
  [http |-> 200, status |-> 200, success |-> TRUE, scriptURL |-> scriptURL[r],
   voiceoverURL |-> voiceoverURL[r], videoURL |-> videoURL, error |-> ""]

\* Variant: a stage before the video stage logs its error without rethrowing
\* it, so POST goes on to the video stage.
ThrowSwallowed(r, error, newCalls) ==
  /\ failedAt' = [failedAt EXCEPT ![r] = [failed |-> TRUE, calls |-> newCalls[r]]]
  /\ IF newCalls[r].submit = 0
       THEN /\ pc' = [pc EXCEPT ![r] = "submit"]
            /\ UNCHANGED response
       ELSE /\ pc' = [pc EXCEPT ![r] = "done"]
            /\ response' = [response EXCEPT ![r] = ErrorResponse(r, error)]

\* Variant: the call that failed is issued again.
ThrowRetry(r, error, newCalls) ==
  /\ pc' = pc
  /\ UNCHANGED <<response, failedAt>>

\* A stage threw: every helper rethrows and POST's catch answers at once.
Throw(r, error, newCalls) ==
  /\ pc' = [pc EXCEPT ![r] = "done"]
  /\ response' = [response EXCEPT ![r] = ErrorResponse(r, error)]
  /\ failedAt' = [failedAt EXCEPT ![r] = [failed |-> TRUE, calls |-> newCalls[r]]]

\* The Create component: two overlapping calls of onhandleGenerate are told
\* apart; useState's initial values.
Invocations == {"k1", "k2"}
NoImage == "null"
NoData == [scriptURL |-> "", voiceoverURL |-> "", videoURL |-> ""]
NoResult == [defined |-> FALSE, status |-> 0, data |-> NoData]

Init ==
  /\ now = 0
  /\ pc = [r \in Runs |-> "idle"]
  /\ req = [r \in Runs |-> NoReq]
  /\ randomId = [r \in Runs |-> ""]
  /\ scriptURL = [r \in Runs |-> <<>>]
  /\ voiceoverURL = [r \in Runs |-> <<>>]
  /\ up = [r \in Runs |-> NoUpload]
  /\ text = [r \in Runs |-> <<>>]
  /\ task = [r \in Runs |-> NoTask]
  /\ polled = [r \in Runs |-> 0]
  /\ calls = [r \in Runs |-> NoCalls]
  /\ failedAt = [r \in Runs |-> NoFailure]
  /\ store = {}
  /\ saved = <<>>
  /\ uploaded = [r \in Runs |-> {}]
  /\ response = [r \in Runs |-> NoResponse]
  /\ abandoned = [r \in Runs |-> FALSE]
  /\ hung = [r \in Runs |-> FALSE]
  /\ mounted = FALSE
  /\ currentIndex = 0
  /\ closureIndex = 0
  /\ scrollTop = 0
  /\ playing = {}
  /\ muted = [i \in Videos |-> TRUE]
  /\ smooth = FALSE
  /\ selectedImage = NoImage
  /\ loading = FALSE
  /\ data = NoData
  /\ rendered = [loading |-> FALSE, selectedImage |-> NoImage]
  /\ cpc = [k \in Invocations |-> "idle"]
  /\ result = [k \in Invocations |-> NoResult]

\* The wall clock advances between any two steps.
Tick ==
  /\ now < MaxClock
  /\ now' = now + 1
  /\ UNCHANGED <<reelsVars, createVars, hung, abandoned, pc, req, randomId, scriptURL, voiceoverURL, up,
                 text, task, polled, calls, failedAt, store, saved, uploaded,
                 response>>

\* ------------------------------------------------------------- POST: entry
\* Variant: the validation forgets the photo.
ParamsOkSportsOnly(sports, photo) == ~Falsy(sports)

\* if (!sports || !photo) return 400
ParamsOk(sports, photo) == ~(Falsy(sports) \/ Falsy(photo))

\* POST up to its first backend call: request.json(), the validation, the id
\* and the three file names; then generateVideoScriptUsingGemini is entered.
Start(r) ==
  /\ pc[r] = "idle"
  /\ \E parsed \in BOOLEAN, sports \in SportsValues, photo \in PhotoValues :
       /\ req' = [req EXCEPT ![r] = IF parsed
                    THEN [parsed |-> TRUE, sports |-> sports, photo |-> photo]
                    ELSE NoReq]
       /\ IF ~parsed
            THEN /\ Throw(r, "request.json() failed", calls)
                 /\ UNCHANGED randomId
            ELSE IF ~ParamsOk(sports, photo)
              THEN /\ pc' = [pc EXCEPT ![r] = "done"]
                   /\ response' = [response EXCEPT ![r] = ValidationResponse]
                   /\ UNCHANGED <<randomId, failedAt>>
              ELSE /\ randomId' = [randomId EXCEPT ![r] = IdOf(now)]
                   /\ pc' = [pc EXCEPT ![r] = "gemini"]
                   /\ UNCHANGED <<response, failedAt>>
  /\ UNCHANGED <<reelsVars, createVars, hung, abandoned, now, scriptURL, voiceoverURL, up, text, task, polled, calls,
                 store, saved, uploaded>>

\* ------------------------------------------------------ uploadToGCPStorage
\* Variant: the script upload is not awaited, the voiceover stage starts at once.
BeginUploadNotAwaited(r, fileName, fileType, content, stage) ==
  /\ up' = [up EXCEPT ![r] = [fileName |-> fileName, fileType |-> fileType,
                              content |-> content, stage |-> stage]]
  /\ pc' = [pc EXCEPT ![r] = IF stage = "script" THEN "fetchScript" ELSE "save"]

\* Entering uploadToGCPStorage(fileName, fileType, fileContent, 'temp').
BeginUpload(r, fileName, fileType, content, stage) ==
  /\ up' = [up EXCEPT ![r] = [fileName |-> fileName, fileType |-> fileType,
                              content |-> content, stage |-> stage]]
  /\ pc' = [pc EXCEPT ![r] = "save"]

\* Variant: an object that exists is left as it is.
SaveObjectKeepExisting(st, path, fileType, content) ==
  IF \E o \in st : o.path = path
    THEN st
    ELSE st \cup {[path |-> path, contentType |-> fileType, content |-> content,
                   public |-> FALSE]}

\* gcpFile.save(fileContent, {metadata: {contentType}}): the object of that
\* path is replaced by a new one, which is private until it is published.
SaveObject(st, path, fileType, content) ==
  {o \in st : o.path # path}
    \cup {[path |-> path, contentType |-> fileType, content |-> content,
           public |-> FALSE]}

\* gcpFile.makePublic()
MakePublicObject(st, path) ==
  {IF o.path = path THEN [o EXCEPT !.public = TRUE] ELSE o : o \in st}

\* History of the writes to a path.
Logged(log, path, content) ==
  IF path \in DOMAIN log
    THEN [log EXCEPT ![path] = Append(@, content)]
    ELSE (path :> <<content>>) @@ log

\* Variant: when the write fails, the catch deletes what the request had stored.
SaveWithCleanup(r) ==
  /\ pc[r] = "save"
  /\ LET newCalls == CountIn(Count(r, "save"), r, SaveKind(up[r].stage))
         path == filePath(up[r].fileName, "temp")
     IN /\ calls' = newCalls
        /\ \E ok \in BOOLEAN :
             IF ok
               THEN /\ store' = SaveObject(store, path, up[r].fileType, up[r].content)
                    /\ saved' = Logged(saved, path, up[r].content)
                    /\ pc' = [pc EXCEPT ![r] = "makePublic"]
                    /\ UNCHANGED <<response, failedAt>>
               ELSE /\ Throw(r, "save failed", newCalls)
                    /\ store' = {o \in store : \A i \in 1..Len(o.path) :
                                                o.path[i] # randomId[r]}
                    /\ UNCHANGED saved
  /\ UNCHANGED <<reelsVars, createVars, hung, abandoned, now, req, randomId, scriptURL, voiceoverURL, up, text, task,
                 polled, uploaded>>

\* await gcpFile.save(...)
Save(r) ==
  /\ pc[r] = "save"
  /\ LET newCalls == CountIn(Count(r, "save"), r, SaveKind(up[r].stage))
         path == filePath(up[r].fileName, "temp")
     IN /\ calls' = newCalls
        /\ \E ok \in BOOLEAN :
             IF ok
               THEN /\ store' = SaveObject(store, path, up[r].fileType, up[r].content)
                    /\ saved' = Logged(saved, path, up[r].content)
                    /\ pc' = [pc EXCEPT ![r] = "makePublic"]
                    /\ UNCHANGED <<response, failedAt>>
               ELSE /\ Throw(r, "save failed", newCalls)
                    /\ UNCHANGED <<store, saved>>
  /\ UNCHANGED <<reelsVars, createVars, hung, abandoned, now, req, randomId, scriptURL, voiceoverURL, up, text, task,
                 polled, uploaded>>

\* AfterUpload with the video stage called right after the script upload.
AfterUploadVideoFirst(r, url) ==
  CASE up[r].stage = "script" ->
         /\ scriptURL' = [scriptURL EXCEPT ![r] = url]
         /\ pc' = [pc EXCEPT ![r] = "submit"]
         /\ UNCHANGED <<voiceoverURL, response>>
    [] up[r].stage = "audio" ->
         /\ voiceoverURL' = [voiceoverURL EXCEPT ![r] = url]
         /\ pc' = [pc EXCEPT ![r] = "submit"]
         /\ UNCHANGED <<scriptURL, response>>
    [] up[r].stage = "video" ->
         /\ pc' = [pc EXCEPT ![r] = "done"]
         /\ response' = [response EXCEPT ![r] = SuccessResponse(r, url)]
         /\ UNCHANGED <<scriptURL, voiceoverURL>>

\* What the caller of uploadToGCPStorage does with the returned URL.
AfterUpload(r, url) ==
  CASE up[r].stage = "script" ->
         \* generateVideoScriptUsingGemini returns; POST calls the voiceover
         /\ scriptURL' = [scriptURL EXCEPT ![r] = url]
         /\ pc' = [pc EXCEPT ![r] = "fetchScript"]
         /\ UNCHANGED <<voiceoverURL, response>>
    [] up[r].stage = "audio" ->
         \* generateVoiceoverUsingGoogleTTS returns; POST calls the video stage
         /\ voiceoverURL' = [voiceoverURL EXCEPT ![r] = url]
         /\ pc' = [pc EXCEPT ![r] = "submit"]
         /\ UNCHANGED <<scriptURL, response>>
    [] up[r].stage = "video" ->
         \* generateVideoFromRunwayML returns; POST answers
         /\ pc' = [pc EXCEPT ![r] = "done"]
         /\ response' = [response EXCEPT ![r] = SuccessResponse(r, url)]
         /\ UNCHANGED <<scriptURL, voiceoverURL>>

\* await gcpFile.makePublic(); return publicUrl
MakePublic(r) ==
  /\ pc[r] = "makePublic"
  /\ LET newCalls == Count(r, "makePublic")
         path == filePath(up[r].fileName, "temp")
         url == publicUrl(path)
     IN /\ calls' = newCalls
        /\ \E ok \in BOOLEAN :
             IF ok
               THEN /\ store' = MakePublicObject(store, path)
                    /\ uploaded' = [uploaded EXCEPT ![r] = @ \cup {up[r].stage}]
                    /\ AfterUpload(r, url)
                    /\ UNCHANGED failedAt
               ELSE /\ Throw(r, "makePublic failed", newCalls)
                    /\ UNCHANGED <<store, uploaded, scriptURL, voiceoverURL>>
  /\ UNCHANGED <<reelsVars, createVars, hung, abandoned, now, req, randomId, up, text, task, polled, saved>>

\* ------------------------------------------ generateVideoScriptUsingGemini
\* ai.models.generateContent, the empty check, then the upload of the script
Gemini(r) ==
  /\ pc[r] = "gemini"
  /\ LET newCalls == Count(r, "gemini")
     IN /\ calls' = newCalls
        /\ \E script \in Scripts \cup {<<>>, Throws} :
             IF script = Throws
               THEN /\ Throw(r, "generateContent failed", newCalls)
                    /\ UNCHANGED up
               ELSE IF Empty(script)
                 THEN /\ Throw(r, "Failed to generate a script. The response is empty.", newCalls)
                      /\ UNCHANGED up
                 ELSE /\ BeginUpload(r, tempScriptName(randomId[r]), "text/plain",
                                     script, "script")
                      /\ UNCHANGED <<response, failedAt>>
  /\ UNCHANGED <<reelsVars, createVars, hung, abandoned, now, req, randomId, scriptURL, voiceoverURL, text, task,
                 polled, store, saved, uploaded>>

\* ----------------------------------------- generateVoiceoverUsingGoogleTTS
\* The object a GET of the URL is served from, if it is publicly readable.
Served(url) == {o \in store : publicUrl(o.path) = url /\ o.public}

\* response.text(): the object's content, or nothing when the 200 response
\* arrives with an empty body
Body(outcome, content) == IF outcome = "answers nothing" THEN <<>> ELSE content

\* fetch(scriptURL), the response.ok check, response.text(), the empty check
FetchScript(r) ==
  /\ pc[r] = "fetchScript"
  /\ LET newCalls == Count(r, "scriptFetch")
     IN /\ calls' = newCalls
        /\ \E outcome \in {"throws", "answers", "answers nothing"} :
             IF outcome = "throws"
               THEN /\ Throw(r, "fetch failed", newCalls)
                    /\ UNCHANGED text
               ELSE IF Served(scriptURL[r]) = {}
                 THEN /\ Throw(r, "Failed to fetch script. Status", newCalls)
                      /\ UNCHANGED text
                 ELSE \E o \in Served(scriptURL[r]) :
                        IF Empty(Body(outcome, o.content))
                          THEN /\ Throw(r, "Failed to fetch script. The response is empty.", newCalls)
                               /\ UNCHANGED text
                          ELSE /\ text' = [text EXCEPT ![r] = o.content]
                               /\ pc' = [pc EXCEPT ![r] = "tts"]
                               /\ UNCHANGED <<response, failedAt>>
  /\ UNCHANGED <<reelsVars, createVars, hung, abandoned, now, req, randomId, scriptURL, voiceoverURL, up, task, polled,
                 store, saved, uploaded>>

\* client.synthesizeSpeech(request), the audioContent check, then the upload
Tts(r) ==
  /\ pc[r] = "tts"
  /\ LET newCalls == Count(r, "tts")
     IN /\ calls' = newCalls
        /\ \E audio \in {AudioContent, NoAudio, Throws} :
             IF audio = Throws
               THEN /\ Throw(r, "synthesizeSpeech failed", newCalls)
                    /\ UNCHANGED up
               ELSE IF NotSet(audio)
                 THEN /\ Throw(r, "Audio content is empty.", newCalls)
                      /\ UNCHANGED up
                 ELSE /\ BeginUpload(r, tempAudioName(randomId[r]), "audio/mpeg",
                                     audio, "audio")
                      /\ UNCHANGED <<response, failedAt>>
  /\ UNCHANGED <<reelsVars, createVars, hung, abandoned, now, req, randomId, scriptURL, voiceoverURL, text, task,
                 polled, store, saved, uploaded>>

\* ----------------------------------------------- generateVideoFromRunwayML
\* Variant: the first status query is issued straight after the submit.
SubmitQueriesAtOnce(r) ==
  /\ pc[r] = "submit"
  /\ LET newCalls == Count(r, "submit")
     IN /\ calls' = newCalls
        /\ \E ok \in BOOLEAN :
             IF ok
               THEN /\ pc' = [pc EXCEPT ![r] = "retrieve"]
                    /\ UNCHANGED <<response, failedAt>>
               ELSE Throw(r, "imageToVideo.create failed", newCalls)
  /\ UNCHANGED <<reelsVars, createVars, hung, abandoned, now, req, randomId, scriptURL, voiceoverURL, up, text, task,
                 polled, store, saved, uploaded>>

\* client.imageToVideo.create(...)
Submit(r) ==
  /\ pc[r] = "submit"
  /\ LET newCalls == Count(r, "submit")
     IN /\ calls' = newCalls
        /\ \E ok \in BOOLEAN :
             IF ok
               THEN /\ pc' = [pc EXCEPT ![r] = "sleep"]
                    /\ UNCHANGED <<response, failedAt>>
               ELSE Throw(r, "imageToVideo.create failed", newCalls)
  /\ UNCHANGED <<reelsVars, createVars, hung, abandoned, now, req, randomId, scriptURL, voiceoverURL, up, text, task,
                 polled, store, saved, uploaded>>

\* do { await new Promise((resolve) => setTimeout(resolve, 10000));
Sleep(r) ==
  /\ pc[r] = "sleep"
  /\ calls' = Count(r, "sleep")
  /\ pc' = [pc EXCEPT ![r] = "retrieve"]
  /\ UNCHANGED <<reelsVars, createVars, hung, abandoned, now, req, randomId, scriptURL, voiceoverURL, up, text, task,
                 polled, failedAt, store, saved, uploaded, response>>

\* Variant: only FAILED ends the loop.
KeepsPollingUntilFailed(status) == status # "FAILED"

\* while (!['SUCCEEDED', 'FAILED'].includes(task.status))
KeepsPolling(status) == status \notin {"SUCCEEDED", "FAILED"}

\* task.output ? task.output[0] : null
FirstOutput(output) == IF output = <<>> THEN "" ELSE output[1]

\* Variant: the status is not looked at once the loop is left.
AfterLoopNoStatusCheck(r, status, output, newCalls) ==
  /\ pc' = [pc EXCEPT ![r] = "fetchVideo"]
  /\ UNCHANGED <<response, failedAt>>

\* if (task.status === 'SUCCEEDED') { videoUrl check; fetchVideoAsBuffer }
\* else throw new Error('Video generation failed.')
AfterLoop(r, status, output, newCalls) ==
  IF status = "SUCCEEDED"
    THEN IF Falsy(FirstOutput(output))
      THEN Throw(r, "Task output is undefined or empty.", newCalls)
      ELSE /\ pc' = [pc EXCEPT ![r] = "fetchVideo"]
           /\ UNCHANGED <<response, failedAt>>
    ELSE Throw(r, "Video generation failed.", newCalls)

\* task = await client.tasks.retrieve(taskId) } while (...); and, when the
\* loop is left, the branch on task.status up to the next await.
Retrieve(r) ==
  /\ pc[r] = "retrieve"
  /\ LET newCalls == Count(r, "status")
     IN /\ calls' = newCalls
        /\ \E status \in NonTerminal \cup {"SUCCEEDED", "FAILED", "<throws>"},
              output \in {<<>>, <<OutputURL>>} :
             /\ status # "SUCCEEDED" => output = <<>>
             /\ IF status = "<throws>"
                  THEN /\ Throw(r, "tasks.retrieve failed", newCalls)
                       /\ UNCHANGED <<task, polled>>
                  ELSE /\ task' = [task EXCEPT ![r] = [status |-> status, output |-> output]]
                       /\ polled' = [polled EXCEPT ![r] =
                                       IF status \in NonTerminal THEN Inc(@) ELSE @]
                       /\ IF KeepsPolling(status)
                            THEN /\ pc' = [pc EXCEPT ![r] = "sleep"]
                                 /\ UNCHANGED <<response, failedAt>>
                            ELSE AfterLoop(r, status, output, newCalls)
  /\ UNCHANGED <<reelsVars, createVars, hung, abandoned, now, req, randomId, scriptURL, voiceoverURL, up, text, store,
                 saved, uploaded>>

\* fetchVideoAsBuffer(videoUrl), then the upload of the video
FetchVideo(r) ==
  /\ pc[r] = "fetchVideo"
  /\ LET newCalls == Count(r, "outputFetch")
     IN /\ calls' = newCalls
        /\ \E statusCode \in StatusCodes, chunks \in VideoBodies, streamOk \in BOOLEAN :
             IF statusCode # 200
               THEN /\ Throw(r, StatusError(statusCode), newCalls)
                    /\ UNCHANGED up
               ELSE IF ~streamOk
                 THEN /\ Throw(r, "response error", newCalls)
                      /\ UNCHANGED up
                 ELSE /\ BeginUpload(r, tempVideoName(randomId[r]), "video/mp4",
                                     BufferConcat(chunks), "video")
                      /\ UNCHANGED <<response, failedAt>>
  /\ UNCHANGED <<reelsVars, createVars, hung, abandoned, now, req, randomId, scriptURL, voiceoverURL, text, task,
                 polled, store, saved, uploaded>>

\* ------------------------------------------------------------- the caller
\* The client disconnects, or gives up, while the video job is being polled.
\* POST never reads request.signal, so nothing in the run reacts to it.
Abandon(r) ==
  /\ pc[r] \in {"sleep", "retrieve"}
  /\ ~abandoned[r]
  /\ abandoned' = [abandoned EXCEPT ![r] = TRUE]
  /\ UNCHANGED <<reelsVars, createVars, hung, now, pc, req, randomId, scriptURL, voiceoverURL, up, text, task,
                 polled, calls, failedAt, store, saved, uploaded, response>>

\* ----------------------------------------------------------- specification
Step(r) ==
  \/ Start(r)
  \/ Gemini(r)
  \/ Save(r)
  \/ MakePublic(r)
  \/ FetchScript(r)
  \/ Tts(r)
  \/ Submit(r)
  \/ Sleep(r)
  \/ Retrieve(r)
  \/ FetchVideo(r)

Next == Tick \/ \E r \in Runs : Step(r) \/ Abandon(r)

Spec == Init /\ [][Next]_vars

\* Every backend call returns and the event loop resumes every continuation.
FairSpec == Spec /\ \A r \in Runs : WF_vars(Step(r))

\* ------------------------------------------------- a call that never returns
\* The awaits of a run that wait for the network; the sleep is a local timer.
NetworkCalls == {"gemini", "save", "makePublic", "fetchScript", "tts", "submit",
                 "retrieve", "fetchVideo"}

\* The call that r is awaiting never settles. No await in POST or in the
\* stages races a timer or takes an AbortSignal, so the run stays suspended.
Hang(r) ==
  /\ pc[r] \in NetworkCalls
  /\ ~hung[r]
  /\ hung' = [hung EXCEPT ![r] = TRUE]
  /\ UNCHANGED <<reelsVars, createVars, abandoned, now, pc, req, randomId, scriptURL,
                 voiceoverURL, up, text, task, polled, calls, failedAt, store,
                 saved, uploaded, response>>

\* A run is resumed only by the settling of the call it awaits.
Resume(r) == ~hung[r] /\ Step(r)

Callers == {"A"}
HangNext == Tick \/ \E r \in Callers : Resume(r) \/ Hang(r)

\* Every call that does settle is followed by the run's next step.
HangSpec == Init /\ [][HangNext]_vars /\ \A r \in Callers : WF_vars(Resume(r))

\* ====================================================== the Reels component
\* containerRef.current.offsetHeight and scrollHeight: the container is one
\* screen high (h-screen) and holds one screen-high child per reel.
containerHeight == UnitsPerScreen
scrollHeight == NumReels * containerHeight
MaxScrollTop == scrollHeight - containerHeight
ScrollPositions == 0..(MaxScrollTop + Overscroll)

\* Math.round(scrollTop / containerHeight), halves rounded up
IndexAt(top) == (2 * top + containerHeight) \div (2 * containerHeight)

\* useEffect(..., [reels]): reels.length > 0 && videoRefs.current[0] -> play()
Mount ==
  /\ ~mounted
  /\ mounted' = TRUE
  /\ \E played \in BOOLEAN : playing' = IF played THEN playing \cup {0} ELSE playing
  /\ UNCHANGED <<pipelineVars, createVars, currentIndex, closureIndex, scrollTop, muted,
                 smooth>>

\* scrollTop + containerHeight >= containerRef.current.scrollHeight
AtEnd(top) == top + containerHeight >= scrollHeight

\* Variant: the video that comes into view is played, the others are not paused.
handleScrollNoPause(top, scrolling) ==
  LET newIndex == IndexAt(top)
  IN IF newIndex # closureIndex /\ newIndex >= 0 /\ newIndex < NumReels
       THEN /\ currentIndex' = newIndex
            /\ \E played \in BOOLEAN :
                 playing' = IF played THEN playing \cup {newIndex} ELSE playing
            /\ smooth' = scrolling
       ELSE IF AtEnd(top)
         THEN /\ currentIndex' = 0
              /\ \E played \in BOOLEAN : playing' = IF played THEN {0} ELSE {}
              /\ smooth' = TRUE
         ELSE /\ UNCHANGED <<currentIndex, playing>>
              /\ smooth' = scrolling

\* handleScroll, run with the container at position top; play() may be
\* rejected, which the handler only logs.
handleScroll(top, scrolling) ==
  LET newIndex == IndexAt(top)
  IN IF newIndex # closureIndex /\ newIndex >= 0 /\ newIndex < NumReels
       THEN /\ currentIndex' = newIndex
            /\ \E played \in BOOLEAN : playing' = IF played THEN {newIndex} ELSE {}
            /\ smooth' = scrolling
       ELSE IF AtEnd(top)
         THEN /\ currentIndex' = 0
              /\ \E played \in BOOLEAN : playing' = IF played THEN {0} ELSE {}
              /\ smooth' = TRUE
         ELSE /\ UNCHANGED <<currentIndex, playing>>
              /\ smooth' = scrolling

\* The user moves the view (wheel, touch, keys); a scroll under way is
\* interrupted; the scroll event runs handleScroll.
UserScroll ==
  /\ mounted
  /\ \E top \in ScrollPositions \ {scrollTop} :
       /\ scrollTop' = top
       /\ handleScroll(top, FALSE)
  /\ UNCHANGED <<pipelineVars, createVars, mounted, closureIndex, muted>>

\* The smooth scroll to the top moves the view; each move fires a scroll
\* event, which runs handleScroll.
SmoothScroll ==
  /\ mounted /\ smooth /\ scrollTop > 0
  /\ \E top \in 0..(scrollTop - 1) :
       /\ scrollTop' = top
       /\ handleScroll(top, top > 0)
  /\ UNCHANGED <<pipelineVars, createVars, mounted, closureIndex, muted>>

\* onClick of the Sound button of video i: video.muted = !video.muted
ToggleMute(i) ==
  /\ mounted
  /\ muted' = [muted EXCEPT ![i] = ~@]
  /\ UNCHANGED <<pipelineVars, createVars, mounted, currentIndex, closureIndex, scrollTop,
                 playing, smooth>>

\* React renders the component again after setCurrentIndex; useCallback
\* (deps [currentIndex, reels.length]) then hands out a new handleScroll.
Render ==
  /\ mounted
  /\ closureIndex # currentIndex
  /\ closureIndex' = currentIndex
  /\ UNCHANGED <<pipelineVars, createVars, mounted, currentIndex, scrollTop, playing, muted,
                 smooth>>

ReelsNext ==
  Mount \/ UserScroll \/ SmoothScroll \/ Render \/ \E i \in Videos : ToggleMute(i)

ReelsSpec == Init /\ [][ReelsNext]_vars

\* ===================================================== the Create component
\* selectedSport starts as 'cricket' and the select offers only non-empty
\* values, so generateVideo's !sports branch is never taken; it is left out.
Image == "photo.png"
Datas == {[scriptURL |-> "s1", voiceoverURL |-> "a1", videoURL |-> "v1"],
          [scriptURL |-> "s2", voiceoverURL |-> "a2", videoURL |-> "v2"]}

\* What response.json() gives for a response that is ok: the route's success
\* body, or its catch body, which travels with HTTP 200 as well.
ApiBodies == {[defined |-> TRUE, status |-> 200, data |-> d] : d \in Datas}
               \cup {[defined |-> TRUE, status |-> 500, data |-> NoData]}

\* <input type="file" onChange>: setSelectedImage(file)
SelectImage ==
  /\ selectedImage = NoImage
  /\ selectedImage' = Image
  /\ UNCHANGED <<pipelineVars, reelsVars, loading, data, rendered, cpc, result>>

\* React renders the component again: the button's disabled attribute and
\* the closure of onhandleGenerate take the current state.
RenderCreate ==
  /\ rendered # [loading |-> loading, selectedImage |-> selectedImage]
  /\ rendered' = [loading |-> loading, selectedImage |-> selectedImage]
  /\ UNCHANGED <<pipelineVars, reelsVars, selectedImage, loading, data, cpc, result>>

\* onClick={onhandleGenerate} on a button rendered with disabled={loading}:
\* setLoading(true), then generateVideo up to its first await. Without an
\* image it alerts and returns undefined.
Click(k) ==
  /\ cpc[k] = "idle"
  /\ ~rendered.loading
  /\ loading' = TRUE
  /\ IF rendered.selectedImage = NoImage
       THEN cpc' = [cpc EXCEPT ![k] = "resume"]
       ELSE cpc' = [cpc EXCEPT ![k] = "convert"]
  /\ result' = [result EXCEPT ![k] = NoResult]
  /\ UNCHANGED <<pipelineVars, reelsVars, selectedImage, data, rendered>>

\* await convertImageToBase64(image), then fetch('/api/generate-video') is
\* sent; a rejection is caught by generateVideo, which returns undefined.
Convert(k) ==
  /\ cpc[k] = "convert"
  /\ \E ok \in BOOLEAN :
       cpc' = [cpc EXCEPT ![k] = IF ok THEN "fetch" ELSE "resume"]
  /\ UNCHANGED <<pipelineVars, reelsVars, selectedImage, loading, data, rendered,
                 result>>

\* await fetch(...): it rejects, or answers not ok (generateVideo throws and
\* catches, returning undefined), or answers ok and response.json() is returned
Fetch(k) ==
  /\ cpc[k] = "fetch"
  /\ \E outcome \in {"throws", "not ok", "ok"}, body \in ApiBodies :
       result' = [result EXCEPT ![k] = IF outcome = "ok" THEN body ELSE NoResult]
  /\ cpc' = [cpc EXCEPT ![k] = "resume"]
  /\ UNCHANGED <<pipelineVars, reelsVars, selectedImage, loading, data, rendered>>

\* onhandleGenerate after its await: apiResponse.status == 200 ? setData :
\* alert (reading .status of undefined throws into the catch); finally
\* setLoading(false).
Settle(k) ==
  /\ cpc[k] = "resume"
  /\ data' = IF result[k].defined /\ result[k].status = 200
               THEN result[k].data ELSE data
  /\ loading' = FALSE
  /\ cpc' = [cpc EXCEPT ![k] = "idle"]
  /\ result' = [result EXCEPT ![k] = NoResult]
  /\ UNCHANGED <<pipelineVars, reelsVars, selectedImage, rendered>>

CreateNext ==
  \/ SelectImage
  \/ RenderCreate
  \/ \E k \in Invocations : Click(k) \/ Convert(k) \/ Fetch(k) \/ Settle(k)

CreateSpec == Init /\ [][CreateNext]_vars

\* ================================================================== claims
Responded(r) == response[r].http # 0
Succeeded(r) == Responded(r) /\ response[r].success
Names(url, kind, id, ext) ==
  \E i \in 1..(Len(url) - 2) : url[i] = kind /\ url[i + 1] = id /\ url[i + 2] = ext

\* C1: a request whose sports or photo is empty or missing is answered with
\* the validation error (HTTP 400, 'issue in params') and the run issues no
\* backend call of any kind: no script generation, no script fetch, no speech
\* call, no video submit, wait or status query, no output fetch and no store
\* write or publish.
C1_InvalidParamsNoCalls ==
  \A r \in Runs :
    (req[r].parsed /\ (Falsy(req[r].sports) \/ Falsy(req[r].photo))) =>
      /\ response[r] = ValidationResponse
      /\ response[r].http = 400
      /\ \A c \in CallKinds : calls[r][c] = 0
      /\ pc[r] = "done"

C1_Witness ==
  \E r \in Runs :
    /\ req[r].parsed /\ ~Falsy(req[r].sports) /\ Falsy(req[r].photo)
    /\ response[r].http = 400

\* C2: a run that succeeds returns three non-empty URLs and each of them
\* carries the request id of that run, in the names script-{id}.txt,
\* audio-{id}.mp3 and video-{id}.mp4.
C2_SuccessUrlsShareId ==
  \A r \in Runs :
    Succeeded(r) =>
      /\ randomId[r] # ""
      /\ response[r].scriptURL # <<>>
      /\ response[r].voiceoverURL # <<>>
      /\ response[r].videoURL # <<>>
      /\ Names(response[r].scriptURL, "script-", randomId[r], ".txt")
      /\ Names(response[r].voiceoverURL, "audio-", randomId[r], ".mp3")
      /\ Names(response[r].videoURL, "video-", randomId[r], ".mp4")

\* a run that started at time 0 and succeeded after the clock had advanced
C2_Witness ==
  \E r \in Runs : Succeeded(r) /\ randomId[r] = ToString(0) /\ now > 0

\* C3: the voiceover stage fetches the script, and calls the speech backend,
\* only after this run's upload of the script has returned (written and
\* published), and it fetches the URL that upload returned.
C3_ScriptUploadedBeforeVoiceover ==
  \A r \in Runs :
    (calls[r].scriptFetch > 0 \/ calls[r].tts > 0) =>
      /\ "script" \in uploaded[r]
      /\ calls[r].save >= 1 /\ calls[r].makePublic >= 1
      /\ Names(scriptURL[r], "script-", randomId[r], ".txt")
      /\ \E o \in store : publicUrl(o.path) = scriptURL[r]

C3_Witness ==
  \E r \in Runs : calls[r].scriptFetch = 1 /\ calls[r].tts = 1

\* C4 (as stated): when the backend answers N non-terminal statuses and then
\* SUCCEEDED, the finished video stage has issued exactly N+1 status queries
\* and exactly one output fetch.
C4_AsStated ==
  \A r \in Runs :
    (task[r].status = "SUCCEEDED" /\ polled[r] < MaxCount /\ pc[r] = "done") =>
      /\ calls[r].status = polled[r] + 1
      /\ calls[r].outputFetch = 1

\* C4 (amended): when the backend answers N non-terminal statuses and then
\* SUCCEEDED, exactly N+1 status queries are issued and none after the
\* terminal status; the output is fetched exactly once when the job carries
\* an output reference, and not at all when it carries none.
C4_PollsThenOneFetch ==
  \A r \in Runs :
    (task[r].status = "SUCCEEDED" /\ polled[r] < MaxCount) =>
      /\ calls[r].status = polled[r] + 1
      /\ calls[r].sleep = calls[r].status
      /\ pc[r] \notin {"sleep", "retrieve"}
      /\ IF Falsy(FirstOutput(task[r].output))
           THEN calls[r].outputFetch = 0 /\ pc[r] = "done"
           ELSE calls[r].outputFetch = (IF pc[r] = "fetchVideo" THEN 0 ELSE 1)

C4_Witness ==
  \E r \in Runs :
    /\ task[r].status = "SUCCEEDED" /\ polled[r] = 1
    /\ calls[r].status = 2 /\ calls[r].outputFetch = 1 /\ pc[r] = "done"

\* C5: when the job is reported FAILED the run answers with the error
\* 'Video generation failed.' (status 500), fetches no output, uploads no
\* video, and its response has no videoURL.
C5_FailedJobNoFetch ==
  \A r \in Runs :
    task[r].status = "FAILED" =>
      /\ Responded(r) /\ ~response[r].success /\ response[r].status = 500
      /\ response[r].error = "Video generation failed."
      /\ response[r].videoURL = <<>>
      /\ calls[r].outputFetch = 0
      /\ calls[r].save = 2 /\ calls[r].makePublic = 2
      /\ "video" \notin uploaded[r] /\ up[r].stage # "video"

C5_Witness ==
  \E r \in Runs :
    task[r].status = "FAILED" /\ polled[r] = 1 /\ response[r].status = 500

\* C6: a run that has entered the polling loop always returns a response,
\* also when the backend never reports a terminal status.
C6_PollingRunEnds ==
  \A r \in Runs : (pc[r] = "sleep") ~> Responded(r)

\* C7: a response either carries all three URLs, the success flag and status
\* 200, or it carries none of the URLs, no success flag and another status.
C7_AllOrNothing ==
  \A r \in Runs :
    Responded(r) =>
      \/ /\ response[r].success /\ response[r].status = 200
         /\ response[r].scriptURL # <<>>
         /\ response[r].voiceoverURL # <<>>
         /\ response[r].videoURL # <<>>
      \/ /\ ~response[r].success /\ response[r].status # 200
         /\ response[r].error # ""
         /\ response[r].scriptURL = <<>>
         /\ response[r].voiceoverURL = <<>>
         /\ response[r].videoURL = <<>>

\* a run that fails in the video stage, after script and voiceover URLs exist
C7_Witness ==
  \E r \in Runs :
    /\ Responded(r) /\ response[r].status = 500
    /\ scriptURL[r] # <<>> /\ voiceoverURL[r] # <<>>

\* C8: once a stage of a run has failed, the run issues no further backend
\* call and has answered with the failure; a failure before the video stage
\* leaves the video job unsubmitted.
C8_FailureAborts ==
  \A r \in Runs :
    failedAt[r].failed =>
      /\ calls[r] = failedAt[r].calls
      /\ pc[r] = "done"
      /\ Responded(r) /\ ~response[r].success
      /\ (failedAt[r].calls.submit = 0 => calls[r].submit = 0)

\* a voiceover failure
C8_Witness ==
  \E r \in Runs :
    failedAt[r].failed /\ failedAt[r].calls.tts = 1 /\ calls[r].submit = 0

\* C9: two requests never have the same request id, and no store object is
\* written twice.
C9_DistinctIds ==
  /\ \A r1, r2 \in Runs :
       (r1 # r2 /\ randomId[r1] # "" /\ randomId[r2] # "") =>
         randomId[r1] # randomId[r2]
  /\ \A p \in DOMAIN saved : Len(saved[p]) <= 1

\* C10: after any writes to one path the store holds exactly one object of
\* that path, whose content is the payload written last, and two uploads of
\* the same name return the same URL.
C10_OverwriteSameUrl ==
  /\ \A p \in DOMAIN saved :
       LET objs == {o \in store : o.path = p}
       IN /\ Cardinality(objs) = 1
          /\ \A o \in objs : o.content = saved[p][Len(saved[p])]
  /\ \A r1, r2 \in Runs :
       (randomId[r1] = randomId[r2]) =>
         /\ ("script" \in uploaded[r1] /\ "script" \in uploaded[r2])
              => scriptURL[r1] = scriptURL[r2]
         /\ ("audio" \in uploaded[r1] /\ "audio" \in uploaded[r2])
              => voiceoverURL[r1] = voiceoverURL[r2]
         /\ (Succeeded(r1) /\ Succeeded(r2))
              => response[r1].videoURL = response[r2].videoURL

\* both requests uploaded a script under the same name, with different texts
C10_Witness ==
  \E p \in DOMAIN saved :
    /\ Len(saved[p]) = 2 /\ saved[p][1] # saved[p][2]
    /\ \A r \in Runs : "script" \in uploaded[r] /\ scriptURL[r] = publicUrl(p)

\* C11: an object of the bucket is private only while an upload of its path
\* is between its write and its publish; once every upload of the path has
\* ended, by returning or by failing, the object is publicly readable.
C11_NoPrivateObjectAfterUpload ==
  \A o \in store :
    ~o.public =>
      \E r \in Runs :
        pc[r] = "makePublic" /\ filePath(up[r].fileName, "temp") = o.path

\* C12: once the caller has abandoned a request, that request issues no
\* further status query.
C12_NoQueryAfterAbandon ==
  [][\A r \in Runs : abandoned[r] => calls'[r].status = calls[r].status]_vars

\* name of the artifact of a stage
FileNameOf(stage, id) ==
  CASE stage = "script" -> tempScriptName(id)
    [] stage = "audio" -> tempAudioName(id)
    [] stage = "video" -> tempVideoName(id)

\* C13: within one run script generation, script fetch, speech synthesis,
\* video submit and output fetch are each called at most once, every artifact
\* is written at most once and published at most once per write; a run that
\* failed has issued its failing call once and nothing after it.
C13_AtMostOnce ==
  \A r \in Runs :
    /\ \A c \in {"gemini", "scriptFetch", "tts", "submit", "outputFetch",
                 "saveScript", "saveAudio", "saveVideo"} : calls[r][c] <= 1
    /\ calls[r].save = calls[r].saveScript + calls[r].saveAudio + calls[r].saveVideo
    /\ calls[r].makePublic <= calls[r].save
    /\ failedAt[r].failed => calls[r] = failedAt[r].calls

\* a run whose write of the audio failed: one attempt, no audio uploaded
C13_Witness ==
  \E r \in Runs :
    /\ failedAt[r].failed /\ calls[r].saveAudio = 1 /\ calls[r].makePublic = 1
    /\ "audio" \notin uploaded[r] /\ response[r].error = "save failed"

C16_LoopOnlyPastLast ==
  /\ [](currentIndex \in Videos)
  /\ [][(mounted /\ currentIndex = NumReels - 1 /\ closureIndex = currentIndex
          /\ scrollTop' # scrollTop
          /\ scrollTop' <= MaxScrollTop /\ IndexAt(scrollTop') = NumReels - 1)
        => (currentIndex' = NumReels - 1 /\ ~smooth')]_vars

\* C17: within a run the backend operations happen in the order script
\* generation, script upload, script fetch, speech synthesis, voiceover
\* upload, video-job submit, status queries, output fetch, video upload: no
\* operation is issued before the one ahead of it has completed, the video
\* job is submitted only after the voiceover upload has completed, and a run
\* that succeeds has performed each single operation once and exactly three
\* store uploads, one per artifact.
C17_StagesInOrder ==
  \A r \in Runs :
    LET c == calls[r]
    IN /\ c.saveScript > 0 => c.gemini = 1
       /\ c.scriptFetch > 0 => "script" \in uploaded[r]
       /\ c.tts > 0 => c.scriptFetch = 1
       /\ c.saveAudio > 0 => c.tts = 1
       /\ c.submit > 0 => ("audio" \in uploaded[r] /\ "script" \in uploaded[r])
       /\ c.sleep > 0 => c.submit = 1
       /\ c.status > 0 => (c.submit = 1 /\ c.sleep > 0)
       /\ c.outputFetch > 0 => (c.status > 0 /\ task[r].status = "SUCCEEDED")
       /\ c.saveVideo > 0 => c.outputFetch = 1
       /\ "video" \in uploaded[r] => c.saveVideo = 1
       /\ Succeeded(r) =>
            /\ c.gemini = 1 /\ c.scriptFetch = 1 /\ c.tts = 1
            /\ c.submit = 1 /\ c.status > 0 /\ c.outputFetch = 1
            /\ c.save = 3 /\ c.makePublic = 3
            /\ c.saveScript = 1 /\ c.saveAudio = 1 /\ c.saveVideo = 1
            /\ uploaded[r] = {"script", "audio", "video"}

\* a run has succeeded after more than one status query
C17_Witness ==
  \E r \in Runs : Succeeded(r) /\ calls[r].status > 1 /\ calls[r].save = 3

\* C18: in the polling loop every status query is immediately preceded by
\* one wait: a run is about to query only when it has waited once more than
\* it has queried, the first query comes after a wait that follows the
\* submit, a query is never followed by another query without a wait, and
\* after a query that answered the loop goes on to the next wait exactly when
\* the status is neither SUCCEEDED nor FAILED, whatever else it is.
C18_WaitBeforeEveryQuery ==
  /\ [](\A r \in Runs :
          /\ pc[r] = "retrieve" => calls[r].sleep = Inc(calls[r].status)
          /\ pc[r] # "retrieve" => calls[r].sleep = calls[r].status
          /\ pc[r] \in {"sleep", "retrieve"} =>
               /\ calls[r].submit = 1
               /\ calls[r].status > 0 => task[r].status \notin {"SUCCEEDED", "FAILED"}
          /\ task[r].status \in {"SUCCEEDED", "FAILED"} =>
               pc[r] \notin {"sleep", "retrieve"})
  /\ [][\A r \in Runs :
          /\ (pc[r] # "retrieve" /\ pc'[r] = "retrieve") =>
               /\ pc[r] = "sleep"
               /\ calls'[r].sleep = Inc(calls[r].sleep)
               /\ calls'[r].status = calls[r].status
          /\ (pc[r] = "retrieve" /\ pc'[r] # "retrieve") =>
               /\ calls'[r].status = Inc(calls[r].status)
               /\ calls'[r].sleep = calls[r].sleep
               /\ \/ /\ failedAt'[r].failed
                     /\ response'[r].error = "tasks.retrieve failed"
                  \/ (pc'[r] = "sleep" <=>
                        task'[r].status \notin {"SUCCEEDED", "FAILED"})
          /\ (pc[r] = "submit" /\ pc'[r] # "submit") =>
               (failedAt'[r].failed \/ pc'[r] = "sleep")]_vars

\* a run waits again after a status the spec does not list, then is about to
\* query for the second time
C18_Witness ==
  \E r \in Runs :
    /\ pc[r] = "retrieve" /\ task[r].status = "PENDING"
    /\ calls[r].sleep = 2 /\ calls[r].status = 1

ErrorOf(r) == IF Responded(r) /\ ~response[r].success THEN response[r].error ELSE ""

\* C19: no object with empty content is ever in the store; a run that failed
\* because the script text was empty, the audio content was not set or the
\* SUCCEEDED job carried no output has uploaded nothing for that stage (and
\* has fetched no output, for the video stage); and a script that was
\* uploaded was not empty.
C19_NoEmptyArtifact ==
  /\ \A o \in store : o.content # <<>>
  /\ \A r \in Runs :
       /\ ErrorOf(r) = "Failed to generate a script. The response is empty." =>
            calls[r].save = 0
       /\ ErrorOf(r) = "Audio content is empty." =>
            (calls[r].saveAudio = 0 /\ "audio" \notin uploaded[r])
       /\ ErrorOf(r) = "Task output is undefined or empty." =>
            (calls[r].outputFetch = 0 /\ calls[r].saveVideo = 0
             /\ "video" \notin uploaded[r])

\* C20: a run whose fetch of scriptURL threw, was answered with a status
\* that is not ok or was answered with an empty body has failed with status
\* 500 without calling the speech synthesis and without uploading an audio
\* object; the speech synthesis is called only with a fetched, non-empty text.
C20_NoSpeechWithoutScript ==
  \A r \in Runs :
    /\ (calls[r].scriptFetch > 0 /\ text[r] = <<>>) =>
         /\ pc[r] = "done" /\ failedAt[r].failed
         /\ response[r].status = 500 /\ ~response[r].success
         /\ response[r].error \in {"fetch failed", "Failed to fetch script. Status",
                                   "Failed to fetch script. The response is empty."}
         /\ calls[r].tts = 0 /\ calls[r].saveAudio = 0
         /\ "audio" \notin uploaded[r]
    /\ calls[r].tts > 0 => (calls[r].scriptFetch = 1 /\ text[r] # <<>>)

\* one run was answered with an empty body, the other with a status that is
\* not ok
C20_Witness ==
  \E r, q \in Runs :
    /\ ErrorOf(r) = "Failed to fetch script. The response is empty."
    /\ ErrorOf(q) = "Failed to fetch script. Status"
    /\ calls[r].tts = 0 /\ calls[q].tts = 0

VideoBytes == {<<>>, <<"b1", "b2", "b3">>}   \* the bodies, chunk after chunk
VideoPath(r) == filePath(tempVideoName(randomId[r]), "temp")

\* C21 (as stated): no run fails on the status of the output fetch when that
\* status is a 2xx one.
C21_AsStated ==
  \A r \in Runs :
    \A statusCode \in StatusCodes :
      (statusCode >= 200 /\ statusCode <= 299) => ErrorOf(r) # StatusError(statusCode)

\* C21 (amended): a run whose output fetch was answered with a status other
\* than 200 has failed with that status in its error and has uploaded no
\* video; a run uploads a video only after its one output fetch, and the
\* bytes it uploads as video-{id}.mp4, as every video object in the store,
\* are the chunks of a response body concatenated in arrival order.
C21_Only200IsFetched ==
  \A r \in Runs :
    /\ \A statusCode \in StatusCodes \ {200} :
         ErrorOf(r) = StatusError(statusCode) =>
           /\ response[r].status = 500
           /\ calls[r].outputFetch = 1 /\ calls[r].saveVideo = 0
           /\ "video" \notin uploaded[r]
    /\ ErrorOf(r) # StatusError(200)
    /\ calls[r].saveVideo > 0 => calls[r].outputFetch = 1
    /\ up[r].stage = "video" =>
         /\ up[r].fileName = tempVideoName(randomId[r])
         /\ up[r].content \in VideoBytes
    /\ \A o \in store : o.path = VideoPath(r) => o.content \in VideoBytes

\* one run was refused on status 206, the other has stored the three bytes
\* that arrived in two chunks
C21_Witness ==
  \E r, q \in Runs :
    /\ ErrorOf(r) = StatusError(206)
    /\ Succeeded(q)
    /\ \E o \in store : o.path = VideoPath(q) /\ o.content = <<"b1", "b2", "b3">>

\* C23: a run returns one response and never a second one, and, unless the
\* video job is polled for ever without reaching SUCCEEDED or FAILED, every
\* run that was started returns its response, also when a network call it
\* awaits never returns.
C23_EveryRunResponds ==
  /\ [][\A r \in Callers : Responded(r) => response'[r] = response[r]]_vars
  /\ \A r \in Callers :
       (<>[]~(pc[r] = "sleep" /\ calls[r].status > 0)) =>
         ((pc[r] # "idle") ~> Responded(r))

InFlight == {k \in Invocations : cpc[k] = "fetch"}

\* C24: in the Create component at most one generation request is in flight
\* at a time, loading is true while one is in flight, a call that settles
\* sets loading to false, and data changes only when a call settles with a
\* response body whose status is 200.
C24_OneRequestAtATime ==
  /\ [](Cardinality(InFlight) <= 1)
  /\ [](InFlight # {} => loading)
  /\ [][\A k \in Invocations :
          (cpc[k] = "resume" /\ cpc'[k] = "idle") =>
            /\ ~loading'
            /\ data' # data => (result[k].defined /\ result[k].status = 200)]_vars
  /\ [][data' # data => \E k \in Invocations : cpc[k] = "resume" /\ cpc'[k] = "idle"]_vars

====
